---- MODULE Spec2Model ----
(***************************************************************************)
(* A model of src/agent.py: the conversational turn (basic_agent), the     *)
(* tool-dispatch loop (tool_using_agent) with its calculator and weather   *)
(* tools, the context-prefixed query (rag_agent / retrieve_context) and    *)
(* the bounded autonomous loop (AutonomousAgent.execute_task).             *)
(*                                                                         *)
(* The examples share no state, so one behaviour of the model exercises    *)
(* one of them: `running` is drawn in Init and names the example.  The     *)
(* completion API is the environment: each request either raises or        *)
(* answers with a stop reason and a sequence of content blocks.            *)
(***************************************************************************)
EXTENDS Integers, Sequences, FiniteSets, TLC

VARIABLES
    running,               \* the example this behaviour exercises
    pc,                    \* "ready" | "loop" | "returned" | "fault"
    fault,                 \* the uncaught exception that ended the call, or "none"
    response,              \* the latest API response (NoResponse before the first)
    ret,                   \* the value the call returned (NoReturn until then)
    requests,              \* the `messages` argument of every request of this call
    emitted,               \* content blocks the model has emitted in this call
    calls,                 \* calls made so far (basic_agent / execute_task)
    history,               \* the caller's list, passed to basic_agent
    conversation_history,  \* basic_agent's parameter as the call left it
    user_message,          \* basic_agent's parameter
    prior,                 \* the list basic_agent started from
    messages,              \* tool_using_agent's local list
    self_history,          \* AutonomousAgent.conversation_history
    max_iterations,        \* execute_task's parameter
    iteration,             \* loop iterations execute_task has begun
    query,                 \* rag_agent's parameter
    knowledge_base,        \* rag_agent's parameter
    context,               \* retrieve_context's result
    expression,            \* calculator's parameter
    result                 \* calculator's return value

vars == <<running, pc, fault, response, ret, requests, emitted, calls,
          history, conversation_history, user_message, prior, messages,
          self_history, max_iterations, iteration, query, knowledge_base,
          context, expression, result>>

(***************************************************************************)
(* Bounds of the model.                                                    *)
(***************************************************************************)
\* content blocks the model emits over one call, all responses together
MaxBlocks == 3
\* completion requests one tool_using_agent call may issue in the model
MaxRequests == 3
\* successive basic_agent / execute_task calls
MaxCalls == 2
\* largest max_iterations passed to execute_task
MaxIter == 3
\* documents in a knowledge base
MaxKb == 5
\* characters in a query
MaxQueryLen == 3
\* tokens in a calculator expression
MaxExprLen == 3

Min(a, b) == IF a < b THEN a ELSE b

IsPrefix(s, t) == Len(s) <= Len(t) /\ SubSeq(t, 1, Len(s)) = s

SeqsUpTo(S, n) == UNION {[1..k -> S] : k \in 0..n}

(***************************************************************************)
(* Turns and content.  A turn's content is a Python str or a Python list;  *)
(* the record keeps the two apart.                                         *)
(***************************************************************************)
StrContent(s) == [kind |-> "str", str |-> s, list |-> <<>>]

ListContent(l) == [kind |-> "list", str |-> "", list |-> l]

Turn(role, content) == [role |-> role, content |-> content]

TextBlock(t) ==
    [type |-> "text", text |-> t, name |-> "", id |-> 0,
     input |-> [location |-> "", expression |-> <<>>]]

ToolUseBlock(name, input) ==
    [type |-> "tool_use", text |-> "", name |-> name, id |-> 0, input |-> input]

ToolResult(id, content) ==
    [type |-> "tool_result", tool_use_id |-> id, content |-> content]

\* hasattr(block, 'text'): text blocks carry .text, tool_use blocks do not
HasText(block) == block.type = "text"

(***************************************************************************)
(* The completion API.  A response carries a stop reason and content; the  *)
(* API gives every tool_use block of a call a fresh identifier.            *)
(***************************************************************************)
StopReasons == {"tool_use", "end_turn", "max_tokens"}

NoResponse == [stop_reason |-> "none", content |-> <<>>]

NoReturn == [kind |-> "none", text |-> "", history |-> <<>>]

ReturnText(t) == [kind |-> "text", text |-> t, history |-> <<>>]

\* Python's None, the result of next(..., None) on a response without text
ReturnNone == [kind |-> "None", text |-> "", history |-> <<>>]

ReturnPair(t, h) == [kind |-> "pair", text |-> t, history |-> h]

FreshId(req, pos) == 10 * req + pos

WithIds(content, req) ==
    [p \in DOMAIN content |->
        IF content[p].type = "tool_use"
        THEN [content[p] EXCEPT !.id = FreshId(req, p)]
        ELSE content[p]]

Responses(blocks, stops, budget, req) ==
    {[stop_reason |-> s, content |-> WithIds(c, req)] :
        s \in stops, c \in SeqsUpTo(blocks, budget)}

(***************************************************************************)
(* 1. basic_agent                                                          *)
(***************************************************************************)
UserMessages == {"Hello! What can you help me with?", "Thanks"}

Texts == {"Hi", "Sure"}

\* no tools are passed, so the model answers with text blocks only
BasicBlocks == {TextBlock(t) : t \in Texts}

\* lines 34-37
AppendUser(h, user_msg) == Append(h, Turn("user", StrContent(user_msg)))

\* a slip in the role of the second record
AppendAssistantAsUser(h, text) == Append(h, Turn("user", StrContent(text)))

\* lines 48-51
AppendAssistant(h, text) == Append(h, Turn("assistant", StrContent(text)))

\* basic_agent(msg) when arg = "None", basic_agent(msg, history) otherwise.
\* raises says that client.messages.create raised; resp is its answer otherwise.
BasicAgent(msg, arg, raises, resp) ==
    LET h0 == IF arg = "None" THEN <<>> ELSE history
        h1 == AppendUser(h0, msg)
        h2 == AppendAssistant(h1, resp.content[1].text)
        \* the caller's list: mutated in place when passed, rebound to the
        \* returned list on success, untouched when a fresh list was made
        \* and the call raised
        mine(h) == IF arg = "None" THEN history ELSE h
    IN  /\ calls' = calls + 1
        /\ user_message' = msg
        /\ prior' = h0
        /\ requests' = <<h1>>
        /\ IF raises
           THEN /\ pc' = "fault"
                /\ fault' = "APIError"
                /\ response' = NoResponse
                /\ emitted' = 0
                /\ ret' = NoReturn
                /\ conversation_history' = h1
                /\ history' = mine(h1)
           ELSE /\ response' = resp
                /\ emitted' = Len(resp.content)
                /\ IF resp.content = <<>>
                   THEN /\ pc' = "fault"
                        /\ fault' = "IndexError"
                        /\ ret' = NoReturn
                        /\ conversation_history' = h1
                        /\ history' = mine(h1)
                   ELSE /\ pc' = "returned"
                        /\ fault' = "none"
                        /\ ret' = ReturnPair(resp.content[1].text, h2)
                        /\ conversation_history' = h2
                        /\ history' = h2
        /\ UNCHANGED <<running, messages, self_history, max_iterations,
                       iteration, query, knowledge_base, context,
                       expression, result>>

BasicCall ==
    /\ running = "basic"
    /\ pc \in {"ready", "returned", "fault"}
    /\ calls < MaxCalls
    /\ \E msg \in UserMessages, arg \in {"None", "list"}, raises \in BOOLEAN,
          resp \in Responses(BasicBlocks, {"end_turn", "max_tokens"}, MaxBlocks, 1) :
        /\ raises => resp = [stop_reason |-> "end_turn", content |-> <<>>]
        /\ BasicAgent(msg, arg, raises, resp)

(***************************************************************************)
(* 2. tool_using_agent: the tools                                          *)
(***************************************************************************)
\* An expression is the token sequence of the string passed to eval.
Numbers == {"15", "23", "0"}

Operators == {"+", "-", "*", "//"}

Tokens == Numbers \cup Operators

NumVal(tok) == CASE tok = "15" -> 15 [] tok = "23" -> 23 [] OTHER -> 0

\* Python's // rounds towards minus infinity
FloorDiv(a, b) ==
    LET q == (IF a < 0 THEN -a ELSE a) \div (IF b < 0 THEN -b ELSE b)
        exact == q * (IF b < 0 THEN -b ELSE b) = (IF a < 0 THEN -a ELSE a)
    IN  IF (a < 0) = (b < 0) THEN q
        ELSE IF exact THEN -q ELSE -q - 1

SyntaxErr == [syn |-> TRUE, zd |-> FALSE, val |-> 0, rest |-> <<>>]

\* factor: ('+' | '-') factor | NUMBER
RECURSIVE ParseFactor(_)
ParseFactor(toks) ==
    IF toks = <<>> THEN SyntaxErr
    ELSE IF Head(toks) \in Numbers
    THEN [syn |-> FALSE, zd |-> FALSE, val |-> NumVal(Head(toks)), rest |-> Tail(toks)]
    ELSE IF Head(toks) \in {"+", "-"}
    THEN LET f == ParseFactor(Tail(toks))
         IN  IF f.syn THEN f
             ELSE [f EXCEPT !.val = IF Head(toks) = "-" THEN -f.val ELSE f.val]
    ELSE SyntaxErr

\* term: factor (('*' | '//') factor)*
RECURSIVE TermRest(_)
TermRest(acc) ==
    IF acc.syn \/ acc.rest = <<>> \/ Head(acc.rest) \notin {"*", "//"} THEN acc
    ELSE LET op == Head(acc.rest)
             f == ParseFactor(Tail(acc.rest))
         IN  IF f.syn THEN f
             ELSE TermRest(
                 [syn |-> FALSE,
                  zd |-> acc.zd \/ f.zd \/ (op = "//" /\ f.val = 0),
                  val |-> IF op = "*" THEN acc.val * f.val
                          ELSE IF f.val = 0 THEN 0
                          ELSE FloorDiv(acc.val, f.val),
                  rest |-> f.rest])

ParseTerm(toks) == TermRest(ParseFactor(toks))

\* arith_expr: term (('+' | '-') term)*
RECURSIVE SumRest(_)
SumRest(acc) ==
    IF acc.syn \/ acc.rest = <<>> \/ Head(acc.rest) \notin {"+", "-"} THEN acc
    ELSE LET op == Head(acc.rest)
             t == ParseTerm(Tail(acc.rest))
         IN  IF t.syn THEN t
             ELSE SumRest(
                 [syn |-> FALSE,
                  zd |-> acc.zd \/ t.zd,
                  val |-> IF op = "+" THEN acc.val + t.val ELSE acc.val - t.val,
                  rest |-> t.rest])

ParseSum(toks) == SumRest(ParseTerm(toks))

\* eval(expression): the string is compiled whole, then evaluated
PyEval(toks) ==
    LET r == ParseSum(toks)
    IN  IF r.syn \/ r.rest # <<>> THEN [exc |-> "SyntaxError", val |-> 0]
        ELSE IF r.zd THEN [exc |-> "ZeroDivisionError", val |-> 0]
        ELSE [exc |-> "none", val |-> r.val]

Digit(d) == <<"0", "1", "2", "3", "4", "5", "6", "7", "8", "9">>[d + 1]

\* str(n) of an int
RECURSIVE PyStr(_)
PyStr(n) ==
    IF n < 0 THEN "-" \o PyStr(-n)
    ELSE IF n < 10 THEN Digit(n)
    ELSE PyStr(n \div 10) \o Digit(n % 10)

\* A call's outcome: the exception it raised ("none" if it returned) and
\* the value it returned.
Returned(v) == [exc |-> "none", value |-> v]

Raised(e) == [exc |-> e, value |-> ""]

\* the calculator without its try/except
calculatorUnguarded(expr) ==
    LET e == PyEval(expr)
    IN  IF e.exc = "none" THEN Returned(PyStr(e.val)) ELSE Raised(e.exc)

\* lines 100-104: the bare except turns every exception into the string
calculator(expr) ==
    LET e == PyEval(expr)
    IN  IF e.exc = "none" THEN Returned(PyStr(e.val))
        ELSE Returned("Invalid expression")

\* lines 96-98 (the degree sign of the source string is left out)
get_weather(location) ==
    Returned("The weather in " \o location \o " is sunny, 72F")

\* lines 106-109 and the call of line 136: tool_functions[tool_name](**tool_input)
DeclaredTools == {"get_weather", "calculator"}

\* a lookup that answers for unknown names instead of failing
tool_functionsDefault(tool_name, tool_input) ==
    IF tool_name = "get_weather" THEN get_weather(tool_input.location)
    ELSE IF tool_name = "calculator" THEN calculator(tool_input.expression)
    ELSE Returned("Unknown tool")

tool_functions(tool_name, tool_input) ==
    IF tool_name \notin DeclaredTools THEN Raised("KeyError")
    ELSE IF tool_name = "get_weather" THEN get_weather(tool_input.location)
    ELSE calculator(tool_input.expression)

(***************************************************************************)
(* 2. tool_using_agent: the loop                                           *)
(***************************************************************************)
WeatherInput(loc) == [location |-> loc, expression |-> <<>>]

CalcInput(expr) == [location |-> "", expression |-> expr]

\* the expressions the model asks the calculator for inside the loop
ToolExprs == {<<"15", "*", "23">>, <<"15", "*">>}

\* what the model may emit: text, calls of the declared tools with inputs
\* of the declared schema, and a call of a tool that was never declared
ToolBlocks ==
    {TextBlock("Here is the answer")}
    \cup {ToolUseBlock("get_weather", WeatherInput("Paris"))}
    \cup {ToolUseBlock("calculator", CalcInput(e)) : e \in ToolExprs}
    \cup {ToolUseBlock("search_web", WeatherInput(""))}

ToolSeed ==
    Turn("user", StrContent("What's the weather in Paris and what's 15 * 23?"))

\* a result that does not carry its block's identifier
MakeToolResultLosesId(block, value) == ToolResult(0, value)

\* lines 138-142
MakeToolResult(block, value) == ToolResult(block.id, value)

\* lines 128-142: the for loop over response.content, from block i on
RECURSIVE RunTools(_, _, _)
RunTools(content, i, tool_results) ==
    IF i > Len(content) THEN [exc |-> "none", results |-> tool_results]
    ELSE IF content[i].type = "tool_use"
    THEN LET r == tool_functions(content[i].name, content[i].input)
         IN  IF r.exc # "none" THEN [exc |-> r.exc, results |-> tool_results]
             ELSE RunTools(content, i + 1,
                           Append(tool_results, MakeToolResult(content[i], r.value)))
    ELSE RunTools(content, i + 1, tool_results)

\* the assistant turn left out
AppendExchangeResultsOnly(msgs, content, tool_results) ==
    Append(msgs, Turn("user", ListContent(tool_results)))

\* lines 145-146
AppendExchange(msgs, content, tool_results) ==
    Append(Append(msgs, Turn("assistant", ListContent(content))),
           Turn("user", ListContent(tool_results)))

\* a loop that takes every response for the final answer
WantsToolsNever(resp) == FALSE

\* line 126
WantsTools(resp) == resp.stop_reason = "tool_use"

\* one iteration of the while loop, lines 118-150
ToolIteration(raises, resp) ==
    /\ requests' = Append(requests, messages)
    /\ IF raises
       THEN /\ pc' = "fault"
            /\ fault' = "APIError"
            /\ UNCHANGED <<response, emitted, ret, messages>>
       ELSE /\ response' = resp
            /\ emitted' = emitted + Len(resp.content)
            /\ IF WantsTools(resp)
               THEN LET run == RunTools(resp.content, 1, <<>>)
                    IN  IF run.exc # "none"
                        THEN /\ pc' = "fault"
                             /\ fault' = run.exc
                             /\ UNCHANGED <<ret, messages>>
                        ELSE /\ messages' =
                                    AppendExchange(messages, resp.content, run.results)
                             /\ UNCHANGED <<pc, fault, ret>>
               ELSE IF resp.content = <<>>
               THEN /\ pc' = "fault"
                    /\ fault' = "IndexError"
                    /\ UNCHANGED <<ret, messages>>
               ELSE IF ~HasText(resp.content[1])
               THEN /\ pc' = "fault"
                    /\ fault' = "AttributeError"
                    /\ UNCHANGED <<ret, messages>>
               ELSE /\ pc' = "returned"
                    /\ ret' = ReturnText(resp.content[1].text)
                    /\ UNCHANGED <<fault, messages>>
    /\ UNCHANGED <<running, calls, history, conversation_history, user_message,
                   prior, self_history, max_iterations, iteration, query,
                   knowledge_base, context, expression, result>>

ToolStep ==
    /\ running = "tool"
    /\ pc = "loop"
    /\ Len(requests) < MaxRequests
    /\ \E raises \in BOOLEAN,
          resp \in Responses(ToolBlocks, StopReasons, MaxBlocks - emitted,
                             Len(requests) + 1) :
        /\ raises => resp = [stop_reason |-> "end_turn", content |-> <<>>]
        /\ ToolIteration(raises, resp)

(***************************************************************************)
(* The calculator on its own: a direct call with any expression.           *)
(***************************************************************************)
CalculatorCall ==
    /\ running = "calc"
    /\ pc = "ready"
    /\ \E expr \in SeqsUpTo(Tokens, MaxExprLen) :
        /\ expression' = expr
        /\ LET r == calculator(expr)
           IN  /\ result' = r.value
               /\ pc' = IF r.exc = "none" THEN "returned" ELSE "fault"
               /\ fault' = r.exc
        /\ UNCHANGED <<running, response, ret, requests, emitted, calls,
                       history, conversation_history, user_message, prior,
                       messages, self_history, max_iterations, iteration,
                       query, knowledge_base, context>>

(***************************************************************************)
(* 3. rag_agent.  A Python str is a sequence of characters here, so that   *)
(* split, lower and `in` are computed as Python computes them.             *)
(***************************************************************************)
Whitespace == {" "}

Alphabet == {"a", "B", " "}

\* the documents a knowledge base is drawn from
Docs == {<<"A", "b">>, <<"b", "a">>, <<>>}

\* str.lower() on one character
LowerChar(c) == CASE c = "A" -> "a" [] c = "B" -> "b" [] OTHER -> c

lower(s) == [i \in DOMAIN s |-> LowerChar(s[i])]

\* str.split(): the maximal runs of non-whitespace characters, in order
RECURSIVE SplitFrom(_, _, _)
SplitFrom(s, word, acc) ==
    IF s = <<>> THEN (IF word = <<>> THEN acc ELSE Append(acc, word))
    ELSE IF Head(s) \in Whitespace
    THEN SplitFrom(Tail(s), <<>>, IF word = <<>> THEN acc ELSE Append(acc, word))
    ELSE SplitFrom(Tail(s), Append(word, Head(s)), acc)

split(s) == SplitFrom(s, <<>>, <<>>)

\* Python's `needle in haystack` on str
In(needle, haystack) ==
    \E off \in 0..(Len(haystack) - Len(needle)) :
        SubSeq(haystack, off + 1, off + Len(needle)) = needle

\* the document compared as written, without lower()
IsRelevantDocAsWritten(q, doc) ==
    LET keywords == split(q)
    IN  \E k \in DOMAIN keywords : In(lower(keywords[k]), doc)

\* lines 165-168: any(keyword.lower() in doc.lower() for keyword in query.split())
IsRelevant(q, doc) ==
    LET keywords == split(q)
    IN  \E k \in DOMAIN keywords : In(lower(keywords[k]), lower(doc))

\* lines 165-168
relevant_docs(q, kb) == SelectSeq(kb, LAMBDA doc : IsRelevant(q, doc))

\* the slice bound of line 169
ContextDocs == 3

\* line 169: relevant_docs[:3]
FirstDocs(docs) == SubSeq(docs, 1, Min(ContextDocs, Len(docs)))

\* "\n\n".join(docs)
RECURSIVE Join(_)
Join(docs) ==
    IF docs = <<>> THEN <<>>
    ELSE IF Len(docs) = 1 THEN docs[1]
    ELSE docs[1] \o <<"\n", "\n">> \o Join(Tail(docs))

\* lines 163-169
retrieve_context(q, kb) == Join(FirstDocs(relevant_docs(q, kb)))

\* lines 178-185: the f-string, its fixed parts kept as single elements
Prompt(ctx, q) ==
    <<"Use the following context to answer the question.\n\nContext:\n">>
    \o ctx \o <<"\n\nQuestion: ">> \o q
    \o <<"\n\nAnswer based on the context provided.">>

RagContents == {<<>>, <<TextBlock("Hi")>>}

\* lines 157-189
RagAgent(q, kb, raises, content) ==
    LET ctx == retrieve_context(q, kb)
    IN  /\ query' = q
        /\ knowledge_base' = kb
        /\ context' = ctx
        /\ requests' = <<<<[role |-> "user", content |-> Prompt(ctx, q)]>>>>
        /\ IF raises
           THEN /\ pc' = "fault"
                /\ fault' = "APIError"
                /\ UNCHANGED <<response, ret, emitted>>
           ELSE /\ response' = [stop_reason |-> "end_turn", content |-> content]
                /\ emitted' = Len(content)
                /\ IF content = <<>>
                   THEN /\ pc' = "fault"
                        /\ fault' = "IndexError"
                        /\ UNCHANGED ret
                   ELSE /\ pc' = "returned"
                        /\ ret' = ReturnText(content[1].text)
                        /\ UNCHANGED fault
        /\ UNCHANGED <<running, calls, history, conversation_history,
                       user_message, prior, messages, self_history,
                       max_iterations, iteration, expression, result>>

RagCall ==
    /\ running = "rag"
    /\ pc = "ready"
    /\ \E q \in SeqsUpTo(Alphabet, MaxQueryLen), kb \in SeqsUpTo(Docs, MaxKb),
          raises \in BOOLEAN, content \in RagContents :
        /\ raises => content = <<>>
        /\ RagAgent(q, kb, raises, content)

(***************************************************************************)
(* 6. AutonomousAgent                                                      *)
(***************************************************************************)
Tasks == {"Research recent AI developments and summarize", "Say hi"}

\* the names of _define_tools, lines 274-299
AutoBlocks ==
    {TextBlock("Done")}
    \cup {ToolUseBlock(n, WeatherInput("")) : n \in {"search_web", "save_to_file"}}

\* lines 306-311
SeedHistory(task) ==
    <<Turn("user", StrContent(
        "Complete this task: " \o task
        \o "\n\nYou can use available tools. Think step by step and use tools as needed."))>>

\* lines 323-326: next((block.text for block in content if hasattr(block, 'text')), None)
RECURSIVE FirstText(_)
FirstText(content) ==
    IF content = <<>> THEN ReturnNone
    ELSE IF HasText(content[1]) THEN ReturnText(content[1].text)
    ELSE FirstText(Tail(content))

\* lines 340-345
MockResult(block) ==
    ToolResult(block.id, "Tool " \o block.name \o " executed successfully")

\* lines 336-345
RECURSIVE MockResults(_)
MockResults(content) ==
    IF content = <<>> THEN <<>>
    ELSE IF content[1].type = "tool_use"
    THEN <<MockResult(content[1])>> \o MockResults(Tail(content))
    ELSE MockResults(Tail(content))

\* the history rebuilt from the latest exchange instead of extended
AutoToolUseReplaces(h, content) ==
    <<Turn("assistant", ListContent(content)),
      Turn("user", ListContent(MockResults(content)))>>

\* lines 331-350
AutoToolUse(h, content) ==
    Append(Append(h, Turn("assistant", ListContent(content))),
           Turn("user", ListContent(MockResults(content))))

\* `else` in place of `elif stop_reason == "tool_use"`
StopBranchElseTools(resp) ==
    IF resp.stop_reason = "end_turn" THEN "return" ELSE "tools"

\* lines 321 and 329: the branch the stop reason selects
StopBranch(resp) ==
    IF resp.stop_reason = "end_turn" THEN "return"
    ELSE IF resp.stop_reason = "tool_use" THEN "tools"
    ELSE "next"

\* an off-by-one loop bound
HasIterationInclusive(i, max_it) == i <= max_it

\* line 313: the for loop has another iteration to run
HasIteration(i, max_it) == i < max_it

\* lines 301-311: the call and its seeding of the history
ExecuteTask(task, max_it) ==
    /\ running = "auto"
    /\ pc \in {"ready", "returned", "fault"}
    /\ calls < MaxCalls
    /\ calls' = calls + 1
    /\ self_history' = SeedHistory(task)
    /\ max_iterations' = max_it
    /\ iteration' = 0
    /\ pc' = "loop"
    /\ fault' = "none"
    /\ response' = NoResponse
    /\ ret' = NoReturn
    /\ requests' = <<>>
    /\ emitted' = 0
    /\ UNCHANGED <<running, history, conversation_history, user_message, prior,
                   messages, query, knowledge_base, context, expression, result>>

ExecuteTaskCall ==
    \E task \in Tasks, max_it \in 0..MaxIter : ExecuteTask(task, max_it)

\* one iteration of the for loop, lines 313-350
AutoIteration(raises, resp) ==
    /\ iteration' = iteration + 1
    /\ requests' = Append(requests, self_history)
    /\ IF raises
       THEN /\ pc' = "fault"
            /\ fault' = "APIError"
            /\ UNCHANGED <<response, emitted, ret, self_history>>
       ELSE /\ response' = resp
            /\ emitted' = emitted + Len(resp.content)
            /\ IF StopBranch(resp) = "return"
               THEN /\ pc' = "returned"
                    /\ ret' = FirstText(resp.content)
                    /\ UNCHANGED <<fault, self_history>>
               ELSE IF StopBranch(resp) = "tools"
               THEN /\ self_history' = AutoToolUse(self_history, resp.content)
                    /\ UNCHANGED <<pc, fault, ret>>
               ELSE UNCHANGED <<pc, fault, ret, self_history>>
    /\ UNCHANGED <<running, calls, history, conversation_history, user_message,
                   prior, messages, max_iterations, query, knowledge_base,
                   context, expression, result>>

AutoStep ==
    /\ running = "auto"
    /\ pc = "loop"
    /\ HasIteration(iteration, max_iterations)
    /\ \E raises \in BOOLEAN,
          resp \in Responses(AutoBlocks, StopReasons, MaxBlocks - emitted,
                             iteration + 1) :
        /\ raises => resp = [stop_reason |-> "end_turn", content |-> <<>>]
        /\ AutoIteration(raises, resp)

\* line 352: the loop ran out of iterations
AutoExhausted ==
    /\ running = "auto"
    /\ pc = "loop"
    /\ ~HasIteration(iteration, max_iterations)
    /\ pc' = "returned"
    /\ ret' = ReturnText("Max iterations reached")
    /\ UNCHANGED <<running, fault, response, requests, emitted, calls, history,
                   conversation_history, user_message, prior, messages,
                   self_history, max_iterations, iteration, query,
                   knowledge_base, context, expression, result>>

(***************************************************************************)
(* The state after construction.                                           *)
(***************************************************************************)
Examples == {"basic", "tool", "calc", "rag", "auto"}

Init ==
    /\ running \in Examples
    /\ pc = (IF running = "tool" THEN "loop" ELSE "ready")
    /\ fault = "none"
    /\ response = NoResponse
    /\ ret = NoReturn
    /\ requests = <<>>
    /\ emitted = 0
    /\ calls = 0
    /\ history = <<>>
    /\ conversation_history = <<>>
    /\ user_message = ""
    /\ prior = <<>>
    /\ messages = (IF running = "tool" THEN <<ToolSeed>> ELSE <<>>)
    /\ self_history = <<>>
    /\ max_iterations = 0
    /\ iteration = 0
    /\ query = <<>>
    /\ knowledge_base = <<>>
    /\ context = <<>>
    /\ expression = <<>>
    /\ result = ""

Next ==
    \/ BasicCall
    \/ ToolStep
    \/ CalculatorCall
    \/ RagCall
    \/ ExecuteTaskCall
    \/ AutoStep
    \/ AutoExhausted

Spec == Init /\ [][Next]_vars

(***************************************************************************)
(* Properties.                                                             *)
(***************************************************************************)
Last(s) == s[Len(s)]

\* the tool_use blocks of a response's content, in order
ToolUses(content) == SelectSeq(content, LAMBDA b : b.type = "tool_use")

\* results holds one tool_result per tool_use block of content, in the
\* same order, each carrying the identifier of its block
OnePerToolUse(content, results) ==
    LET uses == ToolUses(content)
    IN  /\ Len(results) = Len(uses)
        /\ \A k \in DOMAIN results :
              /\ results[k].type = "tool_result"
              /\ results[k].tool_use_id = uses[k].id
        /\ \A j, k \in DOMAIN results :
              results[j].tool_use_id = results[k].tool_use_id => j = k

\* h ends with the assistant turn holding content and then a user turn of
\* tool results matching it
EndsWithExchange(h, content) ==
    /\ Len(h) >= 3
    /\ h[Len(h) - 1].role = "assistant"
    /\ h[Len(h) - 1].content = ListContent(content)
    /\ Last(h).role = "user"
    /\ Last(h).content.kind = "list"
    /\ OnePerToolUse(content, Last(h).content.list)

AllDeclared(content) ==
    \A p \in DOMAIN content :
        content[p].type = "tool_use" => content[p].name \in DeclaredTools

\* C1: a basic_agent call whose request succeeds with a text block returns
\* the prior history followed by one user record carrying the message and
\* then one assistant record carrying the returned text: two records more,
\* the earlier ones unchanged.
C1_BasicAgentAppendsUserThenAssistant ==
    (/\ running = "basic"
     /\ calls > 0
     /\ response # NoResponse
     /\ response.content # <<>>
     /\ HasText(response.content[1]))
    => /\ pc = "returned"
       /\ ret.kind = "pair"
       /\ ret.text = response.content[1].text
       /\ ret.history =
             prior \o <<[role |-> "user", content |-> StrContent(user_message)],
                        [role |-> "assistant", content |-> StrContent(ret.text)]>>
       /\ Len(ret.history) = Len(prior) + 2
       /\ SubSeq(ret.history, 1, Len(prior)) = prior
       /\ conversation_history = ret.history

\* a second call, on the history the first one returned, has returned
C1_Witness ==
    /\ running = "basic"
    /\ pc = "returned"
    /\ calls = 2
    /\ Len(prior) = 2
    /\ Len(ret.history) = 4

\* C2: in tool_using_agent and in execute_task, the user turn appended
\* after a tool-use response carries exactly one tool-result record per
\* tool-use block of that response, in the same order and with the block's
\* identifier; other blocks produce no record, no identifier is duplicated
\* or missing.
C2_OneResultPerToolUse ==
    LET h == IF running = "tool" THEN messages ELSE self_history
    IN  running \in {"tool", "auto"} =>
          /\ \A i \in DOMAIN h :
                (h[i].role = "assistant" /\ h[i].content.kind = "list") =>
                   /\ i < Len(h)
                   /\ h[i + 1].role = "user"
                   /\ h[i + 1].content.kind = "list"
                   /\ OnePerToolUse(h[i].content.list, h[i + 1].content.list)
          /\ (/\ response.stop_reason = "tool_use"
              /\ fault = "none"
              /\ pc = "loop")
             => EndsWithExchange(h, response.content)

\* the loop has answered a response of a tool_use block, a text block and a
\* second tool_use block with two results
C2_Witness ==
    /\ running = "tool"
    /\ pc = "loop"
    /\ Len(response.content) = 3
    /\ response.content[2].type = "text"
    /\ Len(Last(messages).content.list) = 2

\* C3 as stated: the loop goes on while the responses have stop reason
\* tool-use, appending the assistant turn and the tool results, and returns
\* at the first response whose stop reason is not tool-use, with that
\* response's text.
C3_AsStated ==
    running = "tool" =>
      /\ (response.stop_reason \notin {"none", "tool_use"}) => pc = "returned"
      /\ pc = "returned" => response.stop_reason # "tool_use"
      /\ (response.stop_reason = "tool_use" /\ fault # "APIError")
            => pc = "loop" /\ EndsWithExchange(messages, response.content)

\* C3 (amended): while every response has stop reason tool-use and names
\* only declared tools, the loop appends the assistant turn and then the
\* user turn of tool results and issues the next request with them; the
\* call ends at the first response whose stop reason is not tool-use,
\* returning the text of its first block when that block is a text block
\* and ending in an uncaught IndexError or AttributeError otherwise; it
\* never returns while the latest stop reason is tool-use.
C3_LoopUntilNotToolUse ==
    running = "tool" =>
      /\ \A i \in DOMAIN requests :
            /\ Len(requests[i]) = 2 * i - 1
            /\ IsPrefix(requests[i], messages)
      /\ (response.stop_reason \notin {"none", "tool_use"}) =>
            /\ pc \in {"returned", "fault"}
            /\ ~ENABLED ToolStep
            /\ messages = Last(requests)
            /\ pc = "returned" <=>
                  (response.content # <<>> /\ HasText(response.content[1]))
            /\ pc = "fault" =>
                  fault = (IF response.content = <<>> THEN "IndexError"
                           ELSE "AttributeError")
      /\ pc = "returned" =>
            /\ response.stop_reason \in StopReasons \ {"tool_use"}
            /\ ret = ReturnText(response.content[1].text)
      /\ (/\ response.stop_reason = "tool_use"
          /\ AllDeclared(response.content)
          /\ fault # "APIError")
            => /\ pc = "loop"
               /\ EndsWithExchange(messages, response.content)
               /\ Len(messages) = 2 * Len(requests) + 1

\* the final text was returned by the third request, after two tool rounds
C3_Witness ==
    /\ running = "tool"
    /\ pc = "returned"
    /\ Len(requests) = 3
    /\ Len(messages) = 5

Sentinel == ReturnText("Max iterations reached")

\* C4: execute_task issues at most max_iterations completion requests, and
\* when none of max_iterations responses has stop reason end-of-turn it
\* returns "Max iterations reached" (with max_iterations = 0, without any
\* request).
C4_AtMostMaxIterations ==
    running = "auto" =>
      /\ Len(requests) <= max_iterations
      /\ Len(requests) = iteration
      /\ (pc = "loop" /\ iteration = max_iterations) =>
            /\ ~ENABLED AutoStep
            /\ ENABLED AutoExhausted
      /\ (pc = "loop" /\ iteration < max_iterations) => ~ENABLED AutoExhausted
      /\ (pc = "returned" /\ response.stop_reason # "end_turn") =>
            /\ ret = Sentinel
            /\ Len(requests) = max_iterations
      /\ (pc = "returned" /\ response.stop_reason = "end_turn") =>
            ret.text # "Max iterations reached"

\* the sentinel was returned after max_iterations > 0 answered requests
C4_Witness ==
    /\ running = "auto"
    /\ pc = "returned"
    /\ ret = Sentinel
    /\ max_iterations = 3
    /\ Len(requests) = 3
    /\ response.stop_reason = "tool_use"

IsSeedOnly(h) ==
    /\ Len(h) = 1
    /\ h[1].role = "user"
    /\ h[1].content.kind = "str"

\* C10: in execute_task a response whose stop reason is neither end-of-turn
\* nor tool-use leaves the history unchanged and consumes one iteration, so
\* the next request carries the same history; when every response is of
\* that kind the call issues exactly max_iterations identical requests and
\* returns "Max iterations reached" with the history holding only the seed.
C10_OtherStopReasonKeepsHistory ==
    [][running = "auto" =>
        \* the iteration that receives such a response
        /\ (/\ pc = "loop"
            /\ requests' # requests
            /\ pc' # "fault"
            /\ response'.stop_reason \notin {"end_turn", "tool_use"})
           => /\ self_history' = self_history
              /\ iteration' = iteration + 1
              /\ pc' = "loop"
        \* the request that follows it
        /\ (/\ pc = "loop"
            /\ requests # <<>>
            /\ requests' # requests
            /\ response.stop_reason \notin {"end_turn", "tool_use"})
           => Last(requests') = Last(requests)
        \* a call that saw nothing else
        /\ (/\ pc' = "returned"
            /\ IsSeedOnly(self_history')
            /\ response'.stop_reason # "end_turn")
           => /\ ret' = Sentinel
              /\ Len(requests') = max_iterations'
              /\ \A i \in DOMAIN requests' : requests'[i] = self_history'
    ]_vars

\* three requests were answered with stop reason max_tokens and the call
\* returned
C10_Witness ==
    /\ running = "auto"
    /\ pc = "returned"
    /\ max_iterations = 3
    /\ Len(requests) = 3
    /\ response.stop_reason = "max_tokens"
    /\ IsSeedOnly(self_history)

\* C7 as stated: a history is only ever appended to; over successive
\* basic_agent calls on one list, iterations of the tool-dispatch loop, and
\* iterations and calls of execute_task on one object, every earlier value
\* is a prefix of every later one.
C7_AsStated ==
    [][/\ IsPrefix(messages, messages')
       /\ IsPrefix(self_history, self_history')
       /\ (running = "basic" /\ prior' = history) => IsPrefix(history, history')
    ]_vars

\* C7 (amended): a history is only ever appended to over successive
\* basic_agent calls on one list, over the iterations of the tool-dispatch
\* loop and over the iterations of one execute_task call; each execute_task
\* call discards the object's history and starts again from its seed turn.
C7_AppendOnlyWithinACall ==
    [][/\ IsPrefix(messages, messages')
       /\ calls' = calls => IsPrefix(self_history, self_history')
       /\ (running = "auto" /\ calls' # calls) => IsSeedOnly(self_history')
       /\ (running = "basic" /\ prior' = history) =>
             /\ IsPrefix(history, history')
             /\ IsPrefix(history, conversation_history')
    ]_vars

\* a second execute_task call on the object has extended its own history
C7_Witness ==
    /\ running = "auto"
    /\ calls = 2
    /\ Len(self_history) = 3

HasUndeclared(content) == ~AllDeclared(content)

\* C8: in tool_using_agent a tool-use response with a block naming a tool
\* that is not declared ends the call in an uncaught lookup fault: no text
\* is returned, no further request is issued, and neither the assistant
\* turn nor a tool-result turn for that response is appended, even when
\* earlier blocks of the response were executed.
C8_UnknownToolIsUncaught ==
    (/\ running = "tool"
     /\ response.stop_reason = "tool_use"
     /\ HasUndeclared(response.content))
    => /\ pc = "fault"
       /\ fault = "KeyError"
       /\ ret = NoReturn
       /\ ~ENABLED ToolStep
       /\ messages = Last(requests)
       /\ Last(messages).content # ListContent(response.content)

\* the undeclared tool came second, after a calculator block, in the
\* second response
C8_Witness ==
    /\ running = "tool"
    /\ fault = "KeyError"
    /\ Len(requests) = 2
    /\ Len(response.content) = 2
    /\ response.content[1].name = "calculator"
    /\ response.content[2].name = "search_web"

\* C9: the tool-dispatch loop has no bound of its own: as long as every
\* request is answered with stop reason tool-use naming declared tools the
\* call has not ended and stands ready to issue the next request; it ends
\* only on a response with another stop reason or on a fault.
C9_NoIterationBound ==
    running = "tool" =>
      /\ Len(messages) = 2 * Len(requests) + 1 =>
            /\ pc = "loop"
            /\ Len(requests) < MaxRequests => ENABLED ToolStep
      /\ pc = "loop" => Len(messages) = 2 * Len(requests) + 1
      /\ pc # "loop" =>
            \/ response.stop_reason \in StopReasons \ {"tool_use"}
            \/ fault # "none"
      /\ pc = "returned" => response.stop_reason # "tool_use"

\* every request the model allows was answered with tool-use and the call
\* is still in its loop
C9_Witness ==
    /\ running = "tool"
    /\ pc = "loop"
    /\ Len(requests) = MaxRequests
    /\ Len(messages) = 2 * MaxRequests + 1

\* q[i..j] is a whitespace-delimited token of q
IsTokenAt(q, i, j) ==
    /\ 1 <= i /\ i <= j /\ j <= Len(q)
    /\ \A k \in i..j : q[k] # " "
    /\ i = 1 \/ q[i - 1] = " "
    /\ j = Len(q) \/ q[j + 1] = " "

SameLetter(c, d) == c = d \/ {c, d} \in {{"a", "A"}, {"b", "B"}}

\* some token of q occurs in doc, letter case aside
TokenOccurs(q, doc) ==
    \E i, j \in DOMAIN q :
        /\ IsTokenAt(q, i, j)
        /\ \E off \in 0..(Len(doc) - (j - i + 1)) :
              \A k \in 0..(j - i) : SameLetter(q[i + k], doc[off + k + 1])

Matching(q, kb) == SelectSeq(kb, LAMBDA doc : TokenOccurs(q, doc))

\* C5 as stated: at most three documents are selected, and a document of
\* the knowledge base is selected if and only if a token of the query is a
\* case-insensitive substring of it.
C5_AsStated ==
    (running = "rag" /\ pc = "returned") =>
        /\ context = Join(Matching(query, knowledge_base))
        /\ Len(Matching(query, knowledge_base)) <= 3

\* C5 (amended): the documents selected are the first three, in the order
\* of the knowledge base, of those that contain a whitespace-delimited
\* token of the query as a case-insensitive substring (all of them when no
\* more than three do); a query with no tokens selects nothing.
C5_FirstThreeMatches ==
    (running = "rag" /\ pc # "ready") =>
        LET all == Matching(query, knowledge_base)
            chosen == IF Len(all) <= 3 THEN all ELSE <<all[1], all[2], all[3]>>
        IN  /\ context = Join(chosen)
            /\ Last(requests)[1].content = Prompt(Join(chosen), query)
            /\ (\A k \in DOMAIN query : query[k] = " ") => context = <<>>

\* four of five documents match, all of them only when letter case is
\* ignored; the context holds the first three of the four
C5_Witness ==
    /\ running = "rag"
    /\ pc = "returned"
    /\ query = <<" ", "a", "B">>
    /\ knowledge_base =
          <<<<"A", "b">>, <<"b", "a">>, <<"A", "b">>, <<"A", "b">>, <<"A", "b">>>>
    /\ context = <<"A", "b", "\n", "\n", "A", "b", "\n", "\n", "A", "b">>

IsNumber(tok) == tok \in {"15", "23", "0"}

IsSign(tok) == tok \in {"+", "-"}

\* signs and numbers joined by operators: every operator is followed by
\* optional signs and a number, and only a sign may follow an operator
WellFormed(e) ==
    /\ e # <<>>
    /\ IsNumber(Last(e))
    /\ IsNumber(e[1]) \/ IsSign(e[1])
    /\ \A i \in 2..Len(e) :
          /\ IsNumber(e[i]) => ~IsNumber(e[i - 1])
          /\ (~IsNumber(e[i]) /\ ~IsSign(e[i])) => IsNumber(e[i - 1])

\* a // whose divisor, the next number, is 0
DividesByZero(e) ==
    \E i, j \in DOMAIN e :
        /\ e[i] = "//"
        /\ i < j
        /\ e[j] = "0"
        /\ \A k \in (i + 1)..(j - 1) : IsSign(e[k])

====
